---- MODULE Spec2Model ----
(***************************************************************************)
(* headr (src/src/lib.rs): a `head` clone.  get_args turns the command     *)
(* line into a Config (source names and one ReadType), run walks the       *)
(* sources in order, open makes a BufReader over a file or over standard   *)
(* input, print_file emits at most n lines or n bytes.                     *)
(*                                                                         *)
(* Text is modelled as sequences of one-character strings, bytes as        *)
(* sequences of byte names: "a" an ASCII letter, "nl" the newline 0x0A,    *)
(* "C3" "A9" the two bytes of U+00E9 (a lead byte and a continuation byte, *)
(* each invalid without the other), "EF" "BF" "BD" the three bytes of      *)
(* U+FFFD, the replacement character.                                      *)
(***************************************************************************)
EXTENDS Integers, Sequences, FiniteSets, TLC

VARIABLES
    argv,       \* the command line: positional files, --lines, --bytes
    content,    \* the bytes every readable source holds (chosen by the environment)
    pc,         \* "args" | "run" | "lines" | "bytes" | "done" | "parse"
    config,     \* the Config built by get_args
    file_num,   \* index (0-based) of the for loop of run
    handle,     \* the BufReader of the source being read
    line,       \* the bytes read_line has gathered so far for the current line
    i,          \* lines printed so far for the current source
    stdinPos,   \* bytes taken so far from the process's standard input
    stdout,     \* everything written by print! / println!
    stderr,     \* everything written by eprintln!
    result,     \* "running" | "ok" | "usage" | "argerr" | "readerr"
    errmsg,     \* the message of the error get_args / run returned
    last,       \* consumed/delivered byte counts of the source closed last
    pin,        \* input of parse_positive_int (parser specification)
    pres        \* its result

vars == <<argv, content, pc, config, file_num, handle, line, i, stdinPos,
          stdout, stderr, result, errmsg, last, pin, pres>>

(* ------------------------------- bounds -------------------------------- *)
MaxFiles == 2     \* positional arguments on the command line
MaxBytes == 3     \* bytes a source holds
MaxCount == 2     \* largest small count given to --lines / --bytes
MaxLen == 3       \* characters of a string handed to parse_positive_int

(* ------------------------------ utilities ------------------------------ *)
SeqsUpTo(S, n) == UNION {[1..m -> S] : m \in 0..n}

Min(a, b) == IF a < b THEN a ELSE b

Digits == <<"0", "1", "2", "3", "4", "5", "6", "7", "8", "9">>

IsDigit(c) == \E d \in 1..10 : Digits[d] = c

DigitVal(c) == (CHOOSE d \in 1..10 : Digits[d] = c) - 1

(* --------------------- usize::from_str (val.parse()) -------------------- *)
\* usize::MAX of a 64-bit target, as decimal digits (it exceeds TLC's integers).
UsizeMaxDigits ==
    <<"1","8","4","4","6","7","4","4","0","7","3","7","0","9","5","5","1","6","1","5">>

RECURSIVE StripZeros(_)
StripZeros(d) == IF d # <<>> /\ Head(d) = "0" THEN StripZeros(Tail(d)) ELSE d

RECURSIVE DigitsGreater(_, _)
\* a > b for two digit strings of the same length
DigitsGreater(a, b) ==
    IF a = <<>> THEN FALSE
    ELSE IF Head(a) # Head(b) THEN DigitVal(Head(a)) > DigitVal(Head(b))
    ELSE DigitsGreater(Tail(a), Tail(b))

\* checked_mul / checked_add fail at some digit iff the number exceeds usize::MAX
PosOverflow(d) ==
    LET s == StripZeros(d) IN
    \/ Len(s) > Len(UsizeMaxDigits)
    \/ Len(s) = Len(UsizeMaxDigits) /\ DigitsGreater(s, UsizeMaxDigits)

RECURSIVE Accumulate(_, _)
\* result = result * 10 + digit, left to right
Accumulate(d, r) ==
    IF d = <<>> THEN r ELSE Accumulate(Tail(d), r * 10 + DigitVal(Head(d)))

\* str::parse::<usize>: empty -> Err; a lone sign -> Err; one leading '+' is
\* dropped ('-' is not, for an unsigned type); any non-digit -> Err;
\* overflow -> Err.
ParseUsize(s) ==
    IF s = <<>> THEN [ok |-> FALSE, n |-> 0]
    ELSE LET d == IF s[1] = "+" THEN Tail(s) ELSE s IN
         IF d = <<>> \/ (\E k \in 1..Len(d) : ~IsDigit(d[k]))
         THEN [ok |-> FALSE, n |-> 0]
         ELSE IF PosOverflow(d) THEN [ok |-> FALSE, n |-> 0]
         ELSE [ok |-> TRUE, n |-> Accumulate(d, 0)]

(* --------------------------- parse_positive_int ------------------------- *)
\* a plausible slip: the guard n > 0 forgotten
ParsePositiveInt_NoGuard(val) ==
    LET r == ParseUsize(val) IN
    IF r.ok THEN [ok |-> TRUE, n |-> r.n, msg |-> <<>>]
    ELSE [ok |-> FALSE, n |-> 0, msg |-> val]

ParsePositiveInt(val) ==
    LET r == ParseUsize(val) IN
    IF r.ok /\ r.n > 0 THEN [ok |-> TRUE, n |-> r.n, msg |-> <<>>]
    ELSE [ok |-> FALSE, n |-> 0, msg |-> val]

(* ------------------------- get_args (clap 2.x) -------------------------- *)
NotGiven == [given |-> FALSE, val |-> <<>>]

Given(v) == [given |-> TRUE, val |-> v]

DefaultFiles == <<"-">>

\* a plausible slip: another default for --lines
DefaultLines_One == <<"1">>

DefaultLines == <<"1", "0">>

\* a plausible slip: the conflicts_with declaration left out
Conflict_None(a) == FALSE

\* bytes .conflicts_with("lines"): clap rejects the command line when both
\* options occur on it (a default value is no occurrence)
Conflict(a) == a.lines.given /\ a.bytes.given

\* App::get_matches: the ArgMatches, or a usage error.  An argument with a
\* default value is always present in the matches.
GetMatches(a) ==
    [err   |-> Conflict(a),
     files |-> IF a.files = <<>> THEN DefaultFiles ELSE a.files,
     lines |-> [present |-> TRUE,
                val |-> IF a.lines.given THEN a.lines.val ELSE DefaultLines],
     bytes |-> [present |-> a.bytes.given, val |-> a.bytes.val]]

NewLines(n) == [kind |-> "Lines", n |-> n]

NewBytes(n) == [kind |-> "Bytes", n |-> n]

NoRead == [kind |-> "none", n |-> 0]

NoConfig == [files |-> <<>>, read |-> NoRead]

\* the `read:` expression of get_args
ReadOf(m) ==
    IF ~m.lines.present /\ ~m.bytes.present
    THEN [ok |-> TRUE, read |-> NewLines(10), msg |-> <<>>]
    ELSE IF m.bytes.present
    THEN LET v == ParsePositiveInt(m.bytes.val) IN
         [ok |-> v.ok, read |-> IF v.ok THEN NewBytes(v.n) ELSE NoRead, msg |-> v.msg]
    ELSE LET v == ParsePositiveInt(m.lines.val) IN
         [ok |-> v.ok, read |-> IF v.ok THEN NewLines(v.n) ELSE NoRead, msg |-> v.msg]

(* --------------------------- the environment ---------------------------- *)
\* capacity of a BufReader made by BufReader::new
BufCap == 8192

Byte == {"a", "nl", "C3", "A9"}

Contents == SeqsUpTo(Byte, MaxBytes)

\* "-" is standard input (a pipe: a read may return any part of what is
\* left; every request made here is at least as large as the buffer io::stdin
\* keeps, so that buffer is bypassed and stays empty), "x" a regular file, "d" a source that opens but whose reads fail
\* after its first byte (at once when it is empty: a directory), "missing"
\* a name File::open fails on.
Names == {"-", "x", "d", "missing"}

FileLists == SeqsUpTo(Names, MaxFiles)

CountArgs ==
    {<<Digits[c + 1]>> : c \in 0..MaxCount} \cup {<<"f">>, <<"8", "1", "9", "2">>}

ArgOpts == {NotGiven} \cup {Given(v) : v \in CountArgs}

FaultAt(c) == IF c = <<>> THEN 0 ELSE 1

\* one read(2) of at most n bytes at offset pos of the source `name`:
\* the set of possible outcomes
URead(name, c, pos, n) ==
    LET rem == Len(c) - pos IN
    IF name = "x" THEN {[err |-> FALSE, n |-> Min(n, rem)]}
    ELSE IF name = "-"
    THEN IF rem = 0 THEN {[err |-> FALSE, n |-> 0]}
         ELSE {[err |-> FALSE, n |-> k] : k \in 1..Min(n, rem)}
    ELSE IF pos >= FaultAt(c) THEN {[err |-> TRUE, n |-> 0]}
         ELSE {[err |-> FALSE, n |-> Min(n, FaultAt(c) - pos)]}

(* ------------------------------ UTF-8 text ------------------------------ *)
RECURSIVE ValidUtf8(_)
\* str::from_utf8 succeeds: ASCII bytes and whole C3 A9 pairs only
ValidUtf8(b) ==
    IF b = <<>> THEN TRUE
    ELSE IF Head(b) \in {"a", "nl"} THEN ValidUtf8(Tail(b))
    ELSE IF Head(b) = "C3" /\ Len(b) >= 2 /\ b[2] = "A9"
    THEN ValidUtf8(SubSeq(b, 3, Len(b)))
    ELSE FALSE

RECURSIVE FromUtf8Lossy(_)
\* String::from_utf8_lossy, as the bytes print! then writes: valid sequences
\* are kept, a lead byte without its continuation byte and a continuation
\* byte without its lead byte each become one U+FFFD (EF BF BD)
FromUtf8Lossy(b) ==
    IF b = <<>> THEN <<>>
    ELSE IF Head(b) \in {"a", "nl"} THEN <<Head(b)>> \o FromUtf8Lossy(Tail(b))
    ELSE IF Head(b) = "C3" /\ Len(b) >= 2 /\ b[2] = "A9"
    THEN <<"C3", "A9">> \o FromUtf8Lossy(SubSeq(b, 3, Len(b)))
    ELSE <<"EF", "BF", "BD">> \o FromUtf8Lossy(Tail(b))

(* --------------------------------- open --------------------------------- *)
NoHandle == [name |-> "", buf |-> <<>>, pos |-> 0, start |-> 0, delivered |-> 0]

\* File::open(filename)? fails
OpenFails(name) == name = "missing"

\* Box::new(BufReader::new(..)): an empty buffer over the source; standard
\* input goes on where the process left it, a file starts at offset 0.
\* (delivered counts the bytes handed to print_file.)
Open(name, sp) ==
    [name |-> name, buf |-> <<>>, pos |-> IF name = "-" THEN sp ELSE 0,
     start |-> IF name = "-" THEN sp ELSE 0, delivered |-> 0]

(* ------------------------------- BufReader ------------------------------ *)
\* BufReader::fill_buf: when the buffer is empty, one read of BufCap bytes
\* from the source refills it
FillBuf(h, c) ==
    IF h.buf # <<>> THEN {[err |-> FALSE, buf |-> h.buf, pos |-> h.pos]}
    ELSE {[err |-> o.err, buf |-> SubSeq(c, h.pos + 1, h.pos + o.n),
           pos |-> h.pos + o.n] : o \in URead(h.name, c, h.pos, BufCap)}

\* BufReader::read(buf) with buf.len() = n: a request of at least the
\* capacity on an empty buffer goes straight to the source; otherwise
\* fill_buf, then copy what fits
BufReaderRead(h, c, n) ==
    IF h.buf = <<>> /\ n >= BufCap
    THEN {[err |-> o.err, data |-> SubSeq(c, h.pos + 1, h.pos + o.n),
           buf |-> <<>>, pos |-> h.pos + o.n] : o \in URead(h.name, c, h.pos, n)}
    ELSE {[err |-> f.err, data |-> SubSeq(f.buf, 1, Min(n, Len(f.buf))),
           buf |-> SubSeq(f.buf, Min(n, Len(f.buf)) + 1, Len(f.buf)),
           pos |-> f.pos] : f \in FillBuf(h, c)}

\* Take::read: at most `limit` bytes of the buffer are offered to the reader
TakeRead(h, c, limit, buflen) ==
    IF limit = 0 THEN {[err |-> FALSE, data |-> <<>>, buf |-> h.buf, pos |-> h.pos]}
    ELSE BufReaderRead(h, c, Min(buflen, limit))

\* memchr(b'\n', available): index of the first newline, 0 when none
FirstNewline(b) ==
    IF \E k \in 1..Len(b) : b[k] = "nl"
    THEN CHOOSE k \in 1..Len(b) : b[k] = "nl" /\ \A j \in 1..(k - 1) : b[j] # "nl"
    ELSE 0

(* ---------------------------------- run --------------------------------- *)
\* a plausible slip: >= for >
NeedsHeader_Geq(num_files) == num_files >= 1

NeedsHeader(num_files) == num_files > 1

\* println!("{}==> {} <==", if file_num > 0 { "\n" } else { "" }, file)
Header(fnum, name) ==
    (IF fnum > 0 THEN <<"nl">> ELSE <<>>) \o <<"==> ", name, " <==", "nl">>

NoLast == [closed |-> FALSE, consumed |-> 0, delivered |-> 0]

Init ==
    /\ argv \in [files : FileLists, lines : ArgOpts, bytes : ArgOpts]
    /\ content \in Contents
    /\ pc = "args"
    /\ config = NoConfig
    /\ file_num = 0
    /\ handle = NoHandle
    /\ line = <<>>
    /\ i = 0
    /\ stdinPos = 0
    /\ stdout = <<>>
    /\ stderr = <<>>
    /\ result = "running"
    /\ errmsg = <<>>
    /\ last = NoLast
    /\ pin = <<>>
    /\ pres = [ok |-> FALSE, n |-> 0, msg |-> <<>>]

\* get_args: clap's usage error ends the process; a bad count is returned
\* as Err(the string); otherwise the Config
GetArgs ==
    /\ pc = "args"
    /\ LET m == GetMatches(argv)
           r == ReadOf(m)
       IN IF m.err
          THEN /\ pc' = "done" /\ result' = "usage"
               /\ UNCHANGED <<config, errmsg>>
          ELSE IF r.ok
          THEN /\ config' = [files |-> m.files, read |-> r.read]
               /\ pc' = "run"
               /\ UNCHANGED <<result, errmsg>>
          ELSE /\ pc' = "done" /\ result' = "argerr" /\ errmsg' = r.msg
               /\ UNCHANGED config
    /\ UNCHANGED <<argv, content, file_num, handle, line, i, stdinPos, stdout,
                   stderr, last, pin, pres>>

\* the for loop of run is over: Ok(())
RunReturn ==
    /\ pc = "run"
    /\ file_num = Len(config.files)
    /\ pc' = "done"
    /\ result' = "ok"
    /\ UNCHANGED <<argv, content, config, file_num, handle, line, i, stdinPos,
                   stdout, stderr, errmsg, last, pin, pres>>

\* Err(err) => eprintln!("{}: {}", file, err)
OpenErr ==
    /\ pc = "run"
    /\ file_num < Len(config.files)
    /\ OpenFails(config.files[file_num + 1])
    /\ stderr' = Append(stderr, <<config.files[file_num + 1], ": ", "No such file">>)
    /\ file_num' = file_num + 1
    /\ UNCHANGED <<argv, content, pc, config, handle, line, i, stdinPos, stdout,
                   result, errmsg, last, pin, pres>>

\* Ok(buffer) => the header when there are several files, then print_file
OpenOk ==
    /\ pc = "run"
    /\ file_num < Len(config.files)
    /\ ~OpenFails(config.files[file_num + 1])
    /\ stdout' = IF NeedsHeader(Len(config.files))
                 THEN stdout \o Header(file_num, config.files[file_num + 1])
                 ELSE stdout
    /\ handle' = Open(config.files[file_num + 1], stdinPos)
    /\ line' = <<>>
    /\ i' = 0
    /\ pc' = IF config.read.kind = "Lines" THEN "lines" ELSE "bytes"
    /\ UNCHANGED <<argv, content, config, file_num, stdinPos, stderr, result,
                   errmsg, last, pin, pres>>

\* print_file(..)? returned Err: run returns it, the handle is dropped
ReadFailed(pos, msg) ==
    /\ pc' = "done"
    /\ result' = "readerr"
    /\ errmsg' = msg
    /\ handle' = NoHandle
    /\ stdinPos' = IF handle.name = "-" THEN pos ELSE stdinPos
    /\ line' = <<>>
    /\ UNCHANGED <<file_num, i, stdout, last>>

\* print_file returned Ok(()): the handle is dropped, the loop goes on
Closed(pos, delivered, out) ==
    /\ pc' = "run"
    /\ file_num' = file_num + 1
    /\ handle' = NoHandle
    /\ stdinPos' = IF handle.name = "-" THEN pos ELSE stdinPos
    /\ line' = <<>>
    /\ i' = 0
    /\ stdout' = out
    /\ last' = [closed |-> TRUE, consumed |-> pos - handle.start,
                delivered |-> delivered]
    /\ UNCHANGED <<result, errmsg>>

\* ReadType::Lines: one turn of the loop of read_until inside read_line,
\* and, when it returns, the rest of the turn of the for loop
ReadLineStep ==
    /\ pc = "lines"
    /\ \E f \in FillBuf(handle, content) :
         IF f.err THEN ReadFailed(f.pos, <<"io error">>)
         ELSE LET nl   == FirstNewline(f.buf)
                  used == IF nl > 0 THEN nl ELSE Len(f.buf)
                  got  == line \o SubSeq(f.buf, 1, used)
                  rest == SubSeq(f.buf, used + 1, Len(f.buf))
              IN IF nl > 0 \/ used = 0
                 THEN IF ~ValidUtf8(got)
                      THEN ReadFailed(f.pos, <<"stream did not contain valid UTF-8">>)
                      ELSE IF Len(got) = 0
                      THEN Closed(f.pos, handle.delivered, stdout)
                      ELSE IF i + 1 = config.read.n
                      THEN Closed(f.pos, handle.delivered + Len(got), stdout \o got)
                      ELSE /\ stdout' = stdout \o got
                           /\ line' = <<>>
                           /\ i' = i + 1
                           /\ handle' = [handle EXCEPT !.buf = rest, !.pos = f.pos,
                                            !.delivered = @ + Len(got)]
                           /\ stdinPos' = IF handle.name = "-" THEN f.pos ELSE stdinPos
                           /\ UNCHANGED <<pc, file_num, result, errmsg, last>>
                 ELSE /\ line' = got
                      /\ handle' = [handle EXCEPT !.buf = rest, !.pos = f.pos]
                      /\ stdinPos' = IF handle.name = "-" THEN f.pos ELSE stdinPos
                      /\ UNCHANGED <<pc, file_num, i, stdout, result, errmsg, last>>
    /\ UNCHANGED <<argv, content, config, stderr, pin, pres>>

\* ReadType::Bytes: one read through file.take(bytes) into vec![0; bytes],
\* printed lossily
ReadBytes ==
    /\ pc = "bytes"
    /\ \E r \in TakeRead(handle, content, config.read.n, config.read.n) :
         IF r.err THEN ReadFailed(r.pos, <<"io error">>)
         ELSE Closed(r.pos, Len(r.data), stdout \o FromUtf8Lossy(r.data))
    /\ UNCHANGED <<argv, content, config, stderr, pin, pres>>

Next == GetArgs \/ RunReturn \/ OpenErr \/ OpenOk \/ ReadLineStep \/ ReadBytes

Spec == Init /\ [][Next]_vars

(* ----------------- parse_positive_int on its own inputs ----------------- *)
ParseChars == {"0", "1", "3", "5", "+", "-", "f"}

\* usize::MAX + 1
TooBig ==
    <<"1","8","4","4","6","7","4","4","0","7","3","7","0","9","5","5","1","6","1","6">>

ParseInputs == SeqsUpTo(ParseChars, MaxLen) \cup {TooBig, <<"+">> \o TooBig}

InitParse ==
    /\ pin \in ParseInputs
    /\ pres = [ok |-> FALSE, n |-> 0, msg |-> <<>>]
    /\ pc = "parse"
    /\ argv = [files |-> <<>>, lines |-> NotGiven, bytes |-> NotGiven]
    /\ content = <<>>
    /\ config = NoConfig
    /\ file_num = 0
    /\ handle = NoHandle
    /\ line = <<>>
    /\ i = 0
    /\ stdinPos = 0
    /\ stdout = <<>>
    /\ stderr = <<>>
    /\ result = "running"
    /\ errmsg = <<>>
    /\ last = NoLast

ParseStep ==
    /\ pc = "parse"
    /\ pres' = ParsePositiveInt(pin)
    /\ pc' = "parsed"
    /\ UNCHANGED <<argv, content, config, file_num, handle, line, i, stdinPos,
                   stdout, stderr, result, errmsg, last, pin>>

SpecParse == InitParse /\ [][ParseStep]_vars

(* ======================= properties of the claims ======================= *)
Ran == pc = "done" /\ result \in {"ok", "readerr"}

NewlineIdx(c) == {j \in 1..Len(c) : c[j] = "nl"}

\* the first k lines of c, a line ending with its newline when it has one
FirstLines(c, k) ==
    IF k = 0 THEN <<>>
    ELSE IF Cardinality(NewlineIdx(c)) < k THEN c
    ELSE SubSeq(c, 1, CHOOSE j \in NewlineIdx(c) :
                         Cardinality({m \in NewlineIdx(c) : m <= j}) = k)

\* what a source holding c is asked for, as raw bytes
Requested(c, read) ==
    IF read.kind = "Lines" THEN FirstLines(c, read.n)
    ELSE SubSeq(c, 1, Min(read.n, Len(c)))

Shown(raw, read) == IF read.kind = "Lines" THEN raw ELSE FromUtf8Lossy(raw)

\* number of sources run has reached
Reached == IF result = "readerr" THEN file_num + 1 ELSE file_num

HeaderNames(out) ==
    LET idx == {j \in 1..Len(out) : out[j] = "==> "}
        nth(k) == CHOOSE j \in idx : Cardinality({m \in idx : m <= j}) = k
    IN [k \in 1..Cardinality(idx) |-> out[nth(k) + 1]]

RECURSIVE IdealOut(_, _, _, _, _)
\* the output of a run in which every source that opens is read in full up
\* to its limit, standard input going on exactly where the last read stopped
IdealOut(files, read, c, k, sp) ==
    IF k > Len(files) THEN <<>>
    ELSE IF OpenFails(files[k]) THEN IdealOut(files, read, c, k + 1, sp)
    ELSE LET src == IF files[k] = "-" THEN SubSeq(c, sp + 1, Len(c)) ELSE c
             raw == Requested(src, read)
         IN (IF Len(files) > 1 THEN Header(k - 1, files[k]) ELSE <<>>)
            \o Shown(raw, read)
            \o IdealOut(files, read, c, k + 1,
                        IF files[k] = "-" THEN sp + Len(raw) ELSE sp)

\* C1: in Lines(k) mode a readable source yields exactly its first
\* min(k, L) lines, byte for byte, and print_file succeeds.
C1_LinesExact ==
    (/\ Ran
     /\ config.read.kind = "Lines"
     /\ Len(config.files) = 1
     /\ config.files[1] \in {"-", "x"})
    => /\ result = "ok"
       /\ stdout = FirstLines(content, config.read.n)

\* C2: in Bytes(k) mode a readable source of at least k bytes yields exactly
\* its first k bytes (lossily decoded), however the reads are split.
C2_BytesExact ==
    (/\ Ran
     /\ config.read.kind = "Bytes"
     /\ Len(config.files) = 1
     /\ config.files[1] \in {"-", "x"}
     /\ Len(content) >= config.read.n)
    => stdout = FromUtf8Lossy(SubSeq(content, 1, config.read.n))

\* C3: (sources of valid UTF-8) with a source that fails to open in the list, there is exactly one
\* diagnostic per such source, every other source is reached and its full
\* requested content written in list order, and run succeeds when no source
\* has a failing read.
C3_OpenFailureSkipped ==
    (Ran /\ ValidUtf8(content) /\ \E k \in 1..Len(config.files) : OpenFails(config.files[k]))
    => LET miss == SelectSeq(config.files, OpenFails) IN
       /\ stderr = [k \in 1..Len(miss) |-> <<miss[k], ": ", "No such file">>]
       /\ Reached = Len(config.files)
       /\ (\A k \in 1..Len(config.files) : config.files[k] # "d")
          => /\ result = "ok"
             /\ stdout = IdealOut(config.files, config.read, content, 1, 0)

\* C4: a read error in one source never keeps run from reaching the
\* sources after it (stated for sources of valid UTF-8: the errors left are
\* those of the device).
C4_ReadErrorIsolated ==
    (Ran /\ ValidUtf8(content)) => Reached = Len(config.files)

\* C5: with two or more names, a run that returns Ok has written a header
\* for every source of the list, in order, and its standard output does
\* not begin with a blank line.
C5_HeaderEverySource ==
    (pc = "done" /\ result = "ok" /\ Len(config.files) >= 2)
    => /\ HeaderNames(stdout) = config.files
       /\ stdout # <<>> => stdout[1] # "nl"

\* C6: with exactly one name no header and no separating blank line is
\* ever written: standard output is the truncated content of the source
\* (some whole lines of it, at most n, or the decoding of at most n leading
\* bytes), and stays empty when the source cannot be opened.
C6_SingleSourceNoHeader ==
    Len(config.files) = 1
    => /\ \A j \in 1..Len(stdout) : stdout[j] \notin {"==> ", " <=="}
       /\ OpenFails(config.files[1]) => stdout = <<>>
       /\ IF config.read.kind = "Lines"
          THEN \E k \in 0..Min(config.read.n, Len(content)) :
                  stdout = FirstLines(content, k)
          ELSE \E k \in 0..Min(config.read.n, Len(content)) :
                  stdout = FromUtf8Lossy(SubSeq(content, 1, k))

C6_Witness ==
    /\ pc = "done" /\ result = "ok"
    /\ Len(config.files) = 1
    /\ stdout # <<>>
    /\ Len(stdout) < Len(content)

\* C7 as stated: with both --lines v1 and --bytes v2 (v2 a valid count)
\* resolution succeeds with mode Bytes(v2).
C7_BothGivenYieldsBytes ==
    (/\ pc # "args"
     /\ argv.lines.given /\ argv.bytes.given
     /\ ParsePositiveInt(argv.bytes.val).ok)
    => /\ result # "usage"
       /\ config.read = NewBytes(ParsePositiveInt(argv.bytes.val).n)

\* C7 amended: with both options on the command line resolution fails with
\* the option parser's conflict error, no Config is built and nothing is
\* read; --bytes v2 alone (v2 a valid count) gives Bytes(v2), the defaulted
\* lines value being neither used nor validated.
C7_BothGivenRejected ==
    pc # "args"
    => /\ (argv.lines.given /\ argv.bytes.given)
          => /\ pc = "done" /\ result = "usage"
             /\ config = NoConfig /\ stdout = <<>> /\ stderr = <<>>
       /\ (~argv.lines.given /\ argv.bytes.given
              /\ ParsePositiveInt(argv.bytes.val).ok)
          => /\ result \notin {"usage", "argerr"}
             /\ config.read = NewBytes(ParsePositiveInt(argv.bytes.val).n)

C7_Witness ==
    /\ pc = "done" /\ result = "usage"
    /\ argv.lines = Given(<<"1">>) /\ argv.bytes = Given(<<"2">>)

AllDigits(s) == s # <<>> /\ \A k \in 1..Len(s) : IsDigit(s[k])

RECURSIVE Pow10(_)
Pow10(e) == IF e = 0 THEN 1 ELSE 10 * Pow10(e - 1)

RECURSIVE PlaceSum(_, _)
\* the number a digit string denotes: sum of digit * 10^place over its first k digits
PlaceSum(s, k) ==
    IF k = 0 THEN 0 ELSE DigitVal(s[k]) * Pow10(Len(s) - k) + PlaceSum(s, k - 1)

DecimalValue(s) == PlaceSum(s, Len(s))

\* C8 as stated: parse_positive_int(s) succeeds exactly when s is the
\* decimal text of an unsigned integer greater than zero, and then returns
\* it; otherwise it fails with s as the message.
C8_ParseExactlyDecimal ==
    pc = "parsed"
    => /\ pres.ok <=> (AllDigits(pin) /\ \E k \in 1..Len(pin) : pin[k] # "0")
       /\ pres.ok => pres.n = DecimalValue(pin)
       /\ ~pres.ok => pres.msg = pin

\* C8 amended: parse_positive_int(s) succeeds exactly when s is one or more
\* decimal digits, optionally preceded by one '+', denoting a number from 1
\* to usize::MAX, and then returns that number; otherwise it fails with s
\* as the message.
C8_ParseAmended ==
    pc = "parsed"
    => LET d == IF pin # <<>> /\ pin[1] = "+" THEN Tail(pin) ELSE pin IN
       /\ pres.ok <=> (/\ AllDigits(d)
                       /\ \E k \in 1..Len(d) : d[k] # "0"
                       /\ ~PosOverflow(d))
       /\ pres.ok => pres.n = DecimalValue(d)
       /\ ~pres.ok => pres.msg = pin

C8_Witness == pc = "parsed" /\ pin = <<"+", "3">> /\ pres.ok /\ pres.n = 3

\* C9: with neither --lines nor --bytes resolution succeeds with mode
\* Lines(10), and with the source list ["-"] when no source is named.
C9_DefaultsToTenLines ==
    (pc # "args" /\ ~argv.lines.given /\ ~argv.bytes.given)
    => /\ result \notin {"usage", "argerr"}
       /\ config.read = NewLines(10)
       /\ config.files = IF argv.files = <<>> THEN <<"-">> ELSE argv.files

C9_Witness ==
    /\ pc = "run" /\ file_num = 0
    /\ ~argv.lines.given /\ ~argv.bytes.given /\ argv.files = <<>>
    /\ config = [files |-> <<"-">>, read |-> NewLines(10)]

\* C10: when a source is finished, exactly the bytes emitted for it have
\* been taken from the underlying stream.
C10_NoOverRead == last.closed => last.consumed = last.delivered

====
